---- MODULE Spec2Model ----
(***************************************************************************)
(* Model of screenshots/crop.py: a straight-line script that opens         *)
(* ChangeList.png, resizes it to width 1200 keeping the aspect ratio,      *)
(* crops the box (0, 0, 1200, 630) and saves ChangeList_crop.png.          *)
(*                                                                         *)
(* The state is the two files on disk, the script's module-level           *)
(* variables and the position of the interpreter (pc names the statement   *)
(* that runs next).  The image library's calls are operators that follow   *)
(* the library's behaviour: Image.open raises on a missing or unreadable   *)
(* file, Image.resize returns a copy when the size is unchanged and        *)
(* rejects a target size below 1, Image.crop returns an image of the       *)
(* box's size and fills what lies outside the buffer with zeros, and       *)
(* Image.save replaces the file's content.                                 *)
(*                                                                         *)
(* An image is kept symbolically: its size, the content it was decoded     *)
(* from, the grid its pixels are sampled on and the offset of its origin   *)
(* in that grid.  Pixel(img, x, y) computes one pixel from that.           *)
(***************************************************************************)
EXTENDS Integers, Sequences, FiniteSets, TLC

\* ---------------------------------------------------------------- bounds
\* Small dimensions 0..MaxSmallDim are added to the landmark dimensions.
MaxSmallDim == 2
\* Number of distinct pixel contents a source file may hold.
NumContents == 2
\* Number of times the script is run in one behaviour.
MaxRuns == 2

\* ------------------------------------------------------ program constants
new_width == 1200
left == 0
top == 0
right == 1200
bottom == 630

\* ------------------------------------------------------------ input sets
Widths == (0..MaxSmallDim) \cup {7, 1000, 1199, 1200, 1201, 2400}
Heights == (0..MaxSmallDim) \cup {400, 629, 630, 631, 1260, 1261}
Contents == 1..NumContents

\* ---------------------------------------------------------------- images
\* No image (Python's unbound name / None).
NoImage ==
  [kind |-> "none", w |-> 0, h |-> 0, c |-> 0, filt |-> "none",
   sw |-> 0, sh |-> 0, bw |-> 0, bh |-> 0, ox |-> 0, oy |-> 0]

\* The image decoded from a file of size (W, H) holding content c: its
\* pixels are the file's own grid.
Decoded(W, H, c) ==
  [kind |-> "img", w |-> W, h |-> H, c |-> c, filt |-> "native",
   sw |-> W, sh |-> H, bw |-> W, bh |-> H, ox |-> 0, oy |-> 0]

\* The pixel a source file of content c holds at (x, y).
SrcPx(c, x, y) == (c * 37 + x * 7 + y * 13) % 256

Clamp(v, lo, hi) == IF v < lo THEN lo ELSE IF v > hi THEN hi ELSE v

\* One pixel of the resampled grid of size (bw, bh) over a source of size
\* (sw, sh): a fixed weighted mean of the source pixels around the sample's
\* centre.  (The Lanczos kernel's weights are real numbers; what is kept is
\* that the value is a fixed function of the source's pixels, the two sizes
\* and the position.)
ResamplePx(c, sw, sh, bw, bh, u, v) ==
  LET cx == ((2 * u + 1) * sw) \div (2 * bw)
      cy == ((2 * v + 1) * sh) \div (2 * bh)
      xl == Clamp(cx - 1, 0, sw - 1)
      xr == Clamp(cx + 1, 0, sw - 1)
      yu == Clamp(cy - 1, 0, sh - 1)
      yd == Clamp(cy + 1, 0, sh - 1)
      xc == Clamp(cx, 0, sw - 1)
      yc == Clamp(cy, 0, sh - 1)
  IN (4 * SrcPx(c, xc, yc) + SrcPx(c, xl, yc) + SrcPx(c, xr, yc)
        + SrcPx(c, xc, yu) + SrcPx(c, xc, yd)) \div 8

\* The pixel of img at (x, y), 0 <= x < img.w, 0 <= y < img.h: the grid's
\* pixel at the image's offset, and zero where the image reaches outside
\* the grid.
Pixel(img, x, y) ==
  LET u == x + img.ox
      v == y + img.oy
  IN IF u < 0 \/ u >= img.bw \/ v < 0 \/ v >= img.bh
       THEN 0
       ELSE IF img.filt = "native"
              THEN SrcPx(img.c, u, v)
              ELSE ResamplePx(img.c, img.sw, img.sh, img.bw, img.bh, u, v)

\* ----------------------------------------------------------------- files
MissingFile == [kind |-> "missing", img |-> NoImage]
GarbageFile == [kind |-> "garbage", img |-> NoImage]
PngFile(img) == [kind |-> "png", img |-> img]

\* A destination file left by something else before the first run.
OldOutput == PngFile(Decoded(800, 600, 1))

\* The result of a call: a value, or the exception it raised.
Ok(v) == [ok |-> TRUE, err |-> "none", val |-> v]
Raise(e, v) == [ok |-> FALSE, err |-> e, val |-> v]

\* Image.open(path): the file must exist and carry a readable header.
\* Whether a header that declares a zero dimension is accepted is the
\* decoder's matter (accepts); the script adds no guard of its own.
\* (Mutant: a file that is no image opens as a blank 1 x 1 image.)
ImageOpen_Lenient(file, accepts) ==
  IF file.kind = "missing" THEN Raise("FileNotFoundError", NoImage)
  ELSE IF file.kind = "garbage" THEN Ok(Decoded(1, 1, 1))
  ELSE IF (file.img.w = 0 \/ file.img.h = 0) /\ ~accepts
    THEN Raise("UnidentifiedImageError", NoImage)
  ELSE Ok(file.img)

ImageOpen(file, accepts) ==
  IF file.kind = "missing" THEN Raise("FileNotFoundError", NoImage)
  ELSE IF file.kind = "garbage" THEN Raise("UnidentifiedImageError", NoImage)
  ELSE IF (file.img.w = 0 \/ file.img.h = 0) /\ ~accepts
    THEN Raise("UnidentifiedImageError", NoImage)
  ELSE Ok(file.img)

\* int(new_width * original_height / original_width): true division, then
\* truncation.  For non-negative operands below 2^53 the float quotient
\* truncates to the integer quotient.
\* (Mutant: round(...) in place of int(...).)
NewHeight_Rounded(W, H) ==
  IF W = 0 THEN Raise("ZeroDivisionError", 0)
  ELSE Ok((2 * new_width * H + W) \div (2 * W))

\* (Mutant: a zero width is guarded and yields height 0.)
NewHeight_Guarded(W, H) ==
  IF W = 0 THEN Ok(0)
  ELSE Ok((new_width * H) \div W)

NewHeight(W, H) ==
  IF W = 0 THEN Raise("ZeroDivisionError", 0)
  ELSE Ok((new_width * H) \div W)

\* image.resize((tw, th), resample=LANCZOS): the same image when the size
\* does not change, an error for a size below 1, else the resampled grid.
ImageResize(img, tw, th) ==
  IF img.w = tw /\ img.h = th THEN Ok(img)
  ELSE IF tw < 1 \/ th < 1 THEN Raise("ValueError", NoImage)
  ELSE Ok([kind |-> "img", w |-> tw, h |-> th, c |-> img.c,
           filt |-> "lanczos", sw |-> img.sw, sh |-> img.sh,
           bw |-> tw, bh |-> th, ox |-> 0, oy |-> 0])

\* img.crop((l, t, r, b)): an image of size (r - l, b - t) whose origin is
\* the buffer's (l, t); what lies outside the buffer reads as zero.  Only
\* an inverted box is an error.
\* (Mutant: the box read as (top, left, bottom, right).)
ImageCrop_Transposed(img, l, t, r, b) ==
  IF r < l \/ b < t THEN Raise("ValueError", NoImage)
  ELSE Ok([img EXCEPT !.w = b - t, !.h = r - l,
                      !.ox = img.ox + t, !.oy = img.oy + l])

\* (Mutant: a box that reaches outside the buffer is an error.)
ImageCrop_Strict(img, l, t, r, b) ==
  IF r < l \/ b < t THEN Raise("ValueError", NoImage)
  ELSE IF l < 0 \/ t < 0 \/ r > img.w \/ b > img.h
    THEN Raise("BoundsError", NoImage)
  ELSE Ok([img EXCEPT !.w = r - l, !.h = b - t,
                      !.ox = img.ox + l, !.oy = img.oy + t])

\* (Mutant: the box is clipped to the buffer.)
ImageCrop_Clipped(img, l, t, r, b) ==
  LET rr == IF r > img.w THEN img.w ELSE r
      bb == IF b > img.h THEN img.h ELSE b
  IN IF rr < l \/ bb < t THEN Raise("ValueError", NoImage)
     ELSE Ok([img EXCEPT !.w = rr - l, !.h = bb - t,
                         !.ox = img.ox + l, !.oy = img.oy + t])

\* (Mutant: the window is taken from the bottom of the buffer.)
ImageCrop_BottomAnchored(img, l, t, r, b) ==
  IF r < l \/ b < t THEN Raise("ValueError", NoImage)
  ELSE Ok([img EXCEPT !.w = r - l, !.h = b - t,
                      !.ox = img.ox + l, !.oy = img.oy + img.h - (b - t)])

ImageCrop(img, l, t, r, b) ==
  IF r < l \/ b < t THEN Raise("ValueError", NoImage)
  ELSE Ok([img EXCEPT !.w = r - l, !.h = b - t,
                      !.ox = img.ox + l, !.oy = img.oy + t])

\* img.save(path): the file is opened for writing (which needs the path to
\* be writable) and its content replaced by the encoded image.
\* (Mutant: the file is opened for exclusive creation.)
ImageSave_Exclusive(img, file, writable) ==
  IF ~writable THEN Raise("PermissionError", file)
  ELSE IF file.kind # "missing" THEN Raise("FileExistsError", file)
  ELSE Ok(PngFile(img))

ImageSave(img, file, writable) ==
  IF ~writable THEN Raise("PermissionError", file)
  ELSE Ok(PngFile(img))

\* ----------------------------------------------------------------- state
VARIABLES
  srcFile,          \* ChangeList.png on disk
  dstFile,          \* ChangeList_crop.png on disk
  dstWritable,      \* whether ChangeList_crop.png can be opened for writing
  acceptsEmpty,     \* whether the decoder accepts a zero-sized header
  pc,               \* the statement that runs next, or "done" / "failed"
  err,              \* the uncaught exception that ended the run
  image,
  original_width,
  original_height,
  new_height,
  resized_image,
  cropped_image,
  steps,            \* the statements executed in this run, in order
  run,              \* the number of this run
  prev,             \* the outcome of the previous run
  dstAtStart,       \* ChangeList_crop.png as this run found it
  wrote             \* whether a save has written ChangeList_crop.png

vars == <<srcFile, dstFile, dstWritable, acceptsEmpty, pc, err, image,
          original_width, original_height, new_height, resized_image,
          cropped_image, steps, run, prev, dstAtStart, wrote>>

env == <<srcFile, dstWritable, acceptsEmpty>>

NoOutcome == [pc |-> "none", err |-> "none", dst |-> MissingFile]

SourceFiles ==
  {MissingFile, GarbageFile}
    \cup {PngFile(Decoded(W, H, c)) : W \in Widths, H \in Heights, c \in Contents}

Init ==
  /\ srcFile \in SourceFiles
  /\ dstFile \in {MissingFile, OldOutput}
  /\ dstWritable \in BOOLEAN
  /\ acceptsEmpty \in BOOLEAN
  /\ pc = "open"
  /\ err = "none"
  /\ image = NoImage
  /\ original_width = 0
  /\ original_height = 0
  /\ new_height = 0
  /\ resized_image = NoImage
  /\ cropped_image = NoImage
  /\ steps = <<>>
  /\ run = 1
  /\ prev = NoOutcome
  /\ dstAtStart = dstFile
  /\ wrote = FALSE

\* An uncaught exception ends the process.
Fail(e) == /\ pc' = "failed"
           /\ err' = e

\* (Mutant: the output file is created empty before the source is opened.)
Load_Touching ==
  /\ pc = "open"
  /\ steps' = Append(steps, "open")
  /\ dstFile' = (IF dstWritable THEN GarbageFile ELSE dstFile)
  /\ LET r == ImageOpen(srcFile, acceptsEmpty)
     IN IF r.ok
          THEN /\ image' = r.val
               /\ pc' = "size"
               /\ err' = err
          ELSE /\ Fail(r.err)
               /\ image' = image
  /\ UNCHANGED <<env, original_width, original_height, new_height,
                 resized_image, cropped_image, run, prev, dstAtStart, wrote>>

\* line 4: image = Image.open("ChangeList.png")
Load ==
  /\ pc = "open"
  /\ steps' = Append(steps, "open")
  /\ LET r == ImageOpen(srcFile, acceptsEmpty)
     IN IF r.ok
          THEN /\ image' = r.val
               /\ pc' = "size"
               /\ err' = err
          ELSE /\ Fail(r.err)
               /\ image' = image
  /\ UNCHANGED <<env, dstFile, original_width, original_height, new_height,
                 resized_image, cropped_image, run, prev, dstAtStart, wrote>>

\* line 7: original_width, original_height = image.size
GetSize ==
  /\ pc = "size"
  /\ steps' = Append(steps, "size")
  /\ original_width' = image.w
  /\ original_height' = image.h
  /\ pc' = "newsize"
  /\ UNCHANGED <<env, dstFile, err, image, new_height, resized_image,
                 cropped_image, run, prev, dstAtStart, wrote>>

\* lines 10-11: new_width = 1200; new_height = int(...)
ComputeSize ==
  /\ pc = "newsize"
  /\ steps' = Append(steps, "newsize")
  /\ LET r == NewHeight(original_width, original_height)
     IN IF r.ok
          THEN /\ new_height' = r.val
               /\ pc' = "resize"
               /\ err' = err
          ELSE /\ Fail(r.err)
               /\ new_height' = new_height
  /\ UNCHANGED <<env, dstFile, image, original_width, original_height,
                 resized_image, cropped_image, run, prev, dstAtStart, wrote>>

\* line 14: resized_image = image.resize((new_width, new_height), LANCZOS)
Resize ==
  /\ pc = "resize"
  /\ steps' = Append(steps, "resize")
  /\ LET r == ImageResize(image, new_width, new_height)
     IN IF r.ok
          THEN /\ resized_image' = r.val
               /\ pc' = "crop"
               /\ err' = err
          ELSE /\ Fail(r.err)
               /\ resized_image' = resized_image
  /\ UNCHANGED <<env, dstFile, image, original_width, original_height,
                 new_height, cropped_image, run, prev, dstAtStart, wrote>>

\* lines 17-21: cropped_image = resized_image.crop((left, top, right, bottom))
Crop ==
  /\ pc = "crop"
  /\ steps' = Append(steps, "crop")
  /\ LET r == ImageCrop(resized_image, left, top, right, bottom)
     IN IF r.ok
          THEN /\ cropped_image' = r.val
               /\ pc' = "save"
               /\ err' = err
          ELSE /\ Fail(r.err)
               /\ cropped_image' = cropped_image
  /\ UNCHANGED <<env, dstFile, image, original_width, original_height,
                 new_height, resized_image, run, prev, dstAtStart, wrote>>

\* (Mutant: a failed save is tried again.)
Save_Retry ==
  /\ pc = "save"
  /\ steps' = Append(steps, "save")
  /\ LET r == ImageSave(cropped_image, dstFile, dstWritable)
     IN IF r.ok
          THEN /\ dstFile' = r.val
               /\ wrote' = TRUE
               /\ pc' = "done"
               /\ err' = err
          ELSE /\ pc' = (IF Len(steps) < 8 THEN "save" ELSE "failed")
               /\ err' = (IF Len(steps) < 8 THEN err ELSE r.err)
               /\ dstFile' = r.val
               /\ wrote' = wrote
  /\ UNCHANGED <<env, image, original_width, original_height, new_height,
                 resized_image, cropped_image, run, prev, dstAtStart>>

\* line 24: cropped_image.save("ChangeList_crop.png")
Save ==
  /\ pc = "save"
  /\ steps' = Append(steps, "save")
  /\ LET r == ImageSave(cropped_image, dstFile, dstWritable)
     IN IF r.ok
          THEN /\ dstFile' = r.val
               /\ wrote' = TRUE
               /\ pc' = "done"
               /\ err' = err
          ELSE /\ Fail(r.err)
               /\ dstFile' = r.val
               /\ wrote' = wrote
  /\ UNCHANGED <<env, image, original_width, original_height, new_height,
                 resized_image, cropped_image, run, prev, dstAtStart>>

Terminated == pc \in {"done", "failed"}

\* The script is started again: a fresh process over the same two files.
Rerun ==
  /\ Terminated
  /\ run < MaxRuns
  /\ run' = run + 1
  /\ prev' = [pc |-> pc, err |-> err, dst |-> dstFile]
  /\ dstAtStart' = dstFile
  /\ pc' = "open"
  /\ err' = "none"
  /\ image' = NoImage
  /\ original_width' = 0
  /\ original_height' = 0
  /\ new_height' = 0
  /\ resized_image' = NoImage
  /\ cropped_image' = NoImage
  /\ steps' = <<>>
  /\ UNCHANGED <<env, dstFile, wrote>>

\* One statement of the script.
Step == Load \/ GetSize \/ ComputeSize \/ Resize \/ Crop \/ Save

Next == Load \/ GetSize \/ ComputeSize \/ Resize \/ Crop \/ Save \/ Rerun

Spec == Init /\ [][Next]_vars

\* A running interpreter executes its next statement.
FairSpec == Spec /\ WF_vars(Step)

\* ------------------------------------------------------------ properties
Did(s) == \E i \in 1..Len(steps) : steps[i] = s

\* The script's statements in program order.
Order == <<"open", "size", "newsize", "resize", "crop", "save">>

\* The pipeline step a statement belongs to: load is line 4, resize is
\* lines 7-14, crop is lines 17-21 and save is line 24.
StageOf(s) ==
  IF s = "open" THEN "load"
  ELSE IF s \in {"size", "newsize", "resize"} THEN "resize"
  ELSE s

\* The statement executed last in this run.
LastStep == steps[Len(steps)]

\* t is the floor of n / d, stated without division.
IsFloor(t, n, d) == t * d <= n /\ n < (t + 1) * d

\* The positions at which pixels are compared.  Columns: both edges and the
\* middle of the crop window.  Rows: the window's first and last rows, the
\* rows on either side of the last row of a buffer of height h, and every
\* 15th row in between.
ProbeXs == {0, 1, 2, 599, 600, 1197, 1198, 1199}
ProbeYs(h) ==
  {y \in 0..629 : y < 3 \/ y > 626 \/ (y >= h - 2 /\ y <= h + 1) \/ y % 15 = 0}

SrcIsImage == srcFile.kind = "png"
SrcW == srcFile.img.w
SrcH == srcFile.img.h

\* H / W >= 0.525, i.e. 40 H >= 21 W.
WideEnough == SrcIsImage /\ SrcW > 0 /\ SrcH > 0 /\ 40 * SrcH >= 21 * SrcW

OutputIs1200x630 ==
  dstFile.kind = "png" /\ dstFile.img.w = 1200 /\ dstFile.img.h = 630

\* C1 (as stated): for every source image with W > 0, H > 0 and
\* H / W >= 0.525 the run completes and ChangeList_crop.png is 1200 x 630.
C1_AsStated ==
  (WideEnough /\ Terminated) => (pc = "done" /\ OutputIs1200x630)

\* C1 (amended): for every source image with W > 0, H > 0 and
\* H / W >= 0.525, and a destination that can be opened for writing, the
\* run ends completed, never failed, and the image written to
\* ChangeList_crop.png is exactly 1200 wide and 630 high.
C1_OutputSize ==
  /\ (WideEnough /\ dstWritable) => pc # "failed"
  /\ (WideEnough /\ dstWritable /\ Terminated) =>
        (pc = "done" /\ OutputIs1200x630 /\ dstFile = PngFile(cropped_image))

C1_Witness ==
  /\ WideEnough /\ dstWritable /\ pc = "done"
  /\ SrcW = 2400 /\ SrcH = 1261 /\ OutputIs1200x630

HasResized == resized_image.kind = "img"
HasCropped == cropped_image.kind = "img"

\* C2 (as stated): if the resized height is below 630 the crop fails, the
\* save is never executed and ChangeList_crop.png is left as it was.
C2_AsStated ==
  (HasResized /\ resized_image.h < bottom /\ Did("crop")) =>
     (pc = "failed" /\ ~Did("save") /\ ~HasCropped /\ dstFile = dstAtStart)

\* C2 (amended): if the resized height Th is below 630, the crop does not
\* fail: it yields a 1200 x 630 buffer whose rows y < Th are the resized
\* buffer's and whose rows Th <= y < 630 are zero; the save then runs, and
\* with a writable destination the run completes and ChangeList_crop.png
\* holds that buffer.
C2_ShortImagePadded ==
  (HasResized /\ resized_image.h < bottom /\ Did("crop")) =>
     /\ HasCropped
     /\ cropped_image.w = 1200 /\ cropped_image.h = 630
     /\ \A x \in ProbeXs, y \in ProbeYs(resized_image.h) :
          Pixel(cropped_image, x, y) =
            (IF y < resized_image.h THEN Pixel(resized_image, x, y) ELSE 0)
     /\ pc \in {"save", "done", "failed"}
     /\ (pc = "failed" => (err = "PermissionError" /\ ~dstWritable))
     /\ (Terminated => Did("save"))
     /\ (pc = "done" => dstFile = PngFile(cropped_image))

C2_Witness ==
  /\ SrcIsImage /\ SrcW = 1000 /\ SrcH = 400
  /\ HasResized /\ resized_image.h = 480
  /\ pc = "done" /\ dstFile = PngFile(cropped_image)
  /\ Pixel(dstFile.img, 599, 479) = Pixel(resized_image, 599, 479)
  /\ Pixel(dstFile.img, 599, 480) = 0

\* C3 (as stated): for every source image with W > 0 the resize step
\* produces a buffer of width 1200 and height floor(1200 * H / W).
C3_AsStated ==
  (image.kind = "img" /\ image.w > 0 /\ Did("resize")) =>
     /\ HasResized
     /\ resized_image.w = 1200
     /\ IsFloor(resized_image.h, 1200 * image.h, image.w)

\* C3 (amended): for every source image with W > 0 and
\* floor(1200 * H / W) >= 1 the resize step produces a buffer of width
\* exactly 1200 and height exactly floor(1200 * H / W); and whenever the
\* resize step produces a buffer at all, it has these dimensions.
C3_ResizeDims ==
  /\ (image.kind = "img" /\ image.w > 0 /\ 1200 * image.h >= image.w
        /\ Did("resize")) =>
       /\ HasResized
       /\ resized_image.w = 1200
       /\ IsFloor(resized_image.h, 1200 * image.h, image.w)
  /\ HasResized =>
       /\ image.w > 0
       /\ resized_image.w = 1200
       /\ IsFloor(resized_image.h, 1200 * image.h, image.w)

C3_Witness ==
  /\ HasResized /\ image.w = 7 /\ image.h = 631
  /\ resized_image.w = 1200 /\ resized_image.h = 108171
  /\ (1200 * 631) % 7 # 0

\* The exceptions the load step raises for a file that is missing or is
\* no image.
DecodeErrors == {"FileNotFoundError", "UnidentifiedImageError"}

\* C4: if ChangeList.png is missing or not decodable, the load step fails
\* with a decode error; no later statement runs and ChangeList_crop.png is
\* neither created nor modified.
SrcUndecodable ==
  \/ srcFile.kind \in {"missing", "garbage"}
  \/ SrcIsImage /\ (SrcW = 0 \/ SrcH = 0) /\ ~acceptsEmpty

C5_Deterministic ==
  /\ (run > 1 /\ Terminated) =>
        (pc = prev.pc /\ err = prev.err /\ dstFile = prev.dst)
  /\ (pc = "done") => dstFile = PngFile(cropped_image)
  /\ (run > 1 /\ HasCropped /\ prev.pc = "done") =>
        prev.dst = PngFile(cropped_image)

C5_Witness ==
  /\ run = 2 /\ pc = "done" /\ prev.pc = "done"
  /\ dstFile = prev.dst /\ dstFile # OldOutput
  /\ srcFile.kind = "png" /\ SrcW = 2400

\* C6: the crop is anchored at the top-left: when Th >= 630 the output's
\* pixel at (x, y) is the resized buffer's pixel at (x, y) throughout the
\* window, and when Th = 630 the output is the whole resized buffer.
C6_TopLeftAnchored ==
  (HasResized /\ resized_image.h >= bottom) =>
     /\ HasCropped =>
          /\ \A x \in ProbeXs, y \in ProbeYs(resized_image.h) :
               Pixel(cropped_image, x, y) = Pixel(resized_image, x, y)
          /\ (resized_image.h = bottom => cropped_image = resized_image)
     /\ (pc = "done") =>
          /\ \A x \in ProbeXs, y \in ProbeYs(resized_image.h) :
               Pixel(dstFile.img, x, y) = Pixel(resized_image, x, y)
          /\ (resized_image.h = bottom => dstFile = PngFile(resized_image))

C6_Witness ==
  /\ SrcIsImage /\ SrcW = 2400 /\ SrcH = 1260 /\ pc = "done"
  /\ resized_image.w = 1200 /\ resized_image.h = 630
  /\ dstFile = PngFile(resized_image)

IsPrefix(s, t) == Len(s) <= Len(t) /\ \A i \in 1..Len(s) : s[i] = t[i]

\* The statements executed so far are an initial part of the program, each
\* once; a running script is at the statement after them; a completed run
\* executed them all; a failed run stopped at the statement that raised.
C7_InOrder ==
  /\ IsPrefix(steps, Order)
  /\ \A i, j \in 1..Len(steps) : i # j => steps[i] # steps[j]
  /\ (pc \notin {"done", "failed"}) =>
        (Len(steps) < Len(Order) /\ pc = Order[Len(steps) + 1] /\ err = "none")
  /\ (pc = "done") => (steps = Order /\ err = "none")
  /\ (pc = "failed") => (steps # <<>> /\ err # "none")

\* A run that has ended executes nothing more.
C7_NoStepAfterEnd ==
  Terminated => (steps' = steps \/ (run' = run + 1 /\ steps' = <<>>))

\* C7: in every run the statements execute at most once each, in program
\* order, each only after the earlier ones succeeded; the first failure
\* ends the run with nothing later executed; and every run eventually
\* ends completed or failed.
C7_StraightLine ==
  /\ []C7_InOrder
  /\ [][C7_NoStepAfterEnd]_vars
  /\ \A r \in 1..MaxRuns : (run = r) ~> (run = r /\ Terminated)

C7_Witness ==
  /\ pc = "failed" /\ err = "ValueError"
  /\ steps = <<"open", "size", "newsize", "resize">>

\* C8 (as stated): if the decoded image has W = 0 or H = 0, computing the
\* resize height fails with a division by zero, and neither crop nor save
\* runs.
C8_AsStated ==
  (image.kind = "img" /\ (image.w = 0 \/ image.h = 0) /\ Did("newsize")) =>
     /\ pc = "failed" /\ err = "ZeroDivisionError"
     /\ steps = <<"open", "size", "newsize">>

\* C8 (amended): if the decoded image has W = 0, computing the resize
\* height fails with a division by zero, the run ends there and neither
\* resize, crop nor save runs; with H = 0 and W > 0 the computation raises
\* nothing and yields Th = 0.
C8_ZeroWidth ==
  /\ (image.kind = "img" /\ image.w = 0 /\ Did("newsize")) =>
        /\ pc = "failed" /\ err = "ZeroDivisionError"
        /\ steps = <<"open", "size", "newsize">>
        /\ StageOf(LastStep) = "resize"
        /\ resized_image = NoImage /\ cropped_image = NoImage
        /\ dstFile = dstAtStart
  /\ (image.kind = "img" /\ image.w > 0 /\ image.h = 0 /\ Did("newsize")) =>
        /\ new_height = 0
        /\ err # "ZeroDivisionError"
        /\ Len(steps) = 3 => pc = "resize"

C8_Witness ==
  /\ image.kind = "img" /\ image.w = 0 /\ image.h = 630
  /\ pc = "failed" /\ err = "ZeroDivisionError"

\* C9: whenever a save has written ChangeList_crop.png, the file holds an
\* image of exactly 1200 x 630, whatever the source's dimensions.
C9_WrittenSize ==
  (wrote \/ pc = "done") => OutputIs1200x630

C9_Witness ==
  /\ wrote /\ pc = "done" /\ HasResized /\ resized_image.h = 1
  /\ OutputIs1200x630

\* C10: no statement modifies ChangeList.png, and ChangeList_crop.png is
\* changed by the save statement only.
C10_Frame ==
  [][/\ srcFile' = srcFile
     /\ (dstFile' # dstFile) => (pc = "save" /\ pc' = "done")]_vars

C10_Witness ==
  /\ pc = "failed" /\ err = "ValueError" /\ Did("resize")
  /\ dstFile = OldOutput /\ dstWritable

====
